---- MODULE Spec2Model ----
(***************************************************************************)
(* Model of restore_session.py: a script that serialises a constant        *)
(* tier -> folders table into a zip archive, one placeholder entry per     *)
(* (tier, folder) pair, and then prints "Created <zip_filename>".          *)
(*                                                                         *)
(* A run is the sequence  open -> (write entry)* -> close -> print.        *)
(* zipfile.ZipFile(..., 'w') and zf.writestr may raise; an exception       *)
(* raised inside the with-block unwinds through ZipFile.__exit__ (which    *)
(* closes the handle) and terminates the process before the print.         *)
(* Several runs of the script against the same file are modelled by Rerun. *)
(***************************************************************************)
EXTENDS Naturals, Sequences, FiniteSets

VARIABLES
    structure,  \* the tier table: sequence of [tier, folders] in dict order
    pc,         \* position of the run: start, loop, exit, raising, print, done, error
    ti,         \* position of the outer iterator (structure.items())
    fi,         \* position of the inner iterator (folders)
    zf,         \* the ZipFile handle: "none", "open" or "closed"
    filelist,   \* entries written through the handle in this run
    calls,      \* number of zf.writestr calls made in this run
    disk,       \* the destination file: [exists, entries, finalized]
    stdout,     \* lines printed by this run
    exits       \* exit statuses of the earlier runs (0 success, 1 failure)

vars == <<structure, pc, ti, fi, zf, filelist, calls, disk, stdout, exits>>

-----------------------------------------------------------------------------
(* Bounds of the model *)

\* longest folder list of a generated (non-default) table
MaxFolders == 2

\* number of runs of the script against the same output path
MaxRuns == 2

-----------------------------------------------------------------------------
(* The program's constants *)

DefaultStructure ==
    << [tier |-> "S", folders |->
          << "Learn Earn", "Productivity", "Outreach Playbook", "Motivation", "Flow",
             "The Grand Slam Offer", "Business Research", "Financial Urgent", "Work",
             "Finances" >>],
       [tier |-> "A", folders |->
          << "Next-Level Acceleration", "Tech Projects", "Game Development",
             "Lead Generation", "Research", "Relationship", "Content Creation" >>],
       [tier |-> "B", folders |->
          << "Website", "Domain Acquisition", "Podcasting", "BrandKit",
             "Productized Service", "Household & Maintenance", "Funnel & Tracking",
             "Health & Wellness", "Community Building", "Operations",
             "Personal Branding", "Reflection", "Personal Events",
             "Product Development" >>],
       [tier |-> "C", folders |->
          << "Fitness", "Wellness", "Streaming Setup", "App Mafia", "Lightmark.ai",
             "Social Media", "Code", "Luma Event", "Dental & Medical", "SEO",
             "Indiehacking", "Design", "SelfCare", "Content Strategy" >>],
       [tier |-> "D", folders |->
          << "Travel", "Content Curation", "Improv Setup", "Townhall" >>],
       [tier |-> "F", folders |->
          << "None", "Shopping & Errands", "NS Projects & Social",
             "Content Consumption", "Leisure", "Ns" >>] >>

zip_filename == "restored_flowlist.zip"

ContentNewline == "- [ ] Placeholder task\n"

\* the data argument of zf.writestr
Content == "- [ ] Placeholder task"

PathOfNoTier(tier, folder) == folder \o ".txt"

\* path = f"{tier}/{folder}.txt"
PathOf(tier, folder) == tier \o "/" \o folder \o ".txt"

-----------------------------------------------------------------------------
(* Tables other than the default one, for the claims about any table.      *)
(* A dict has distinct keys; a folder list may repeat a name.  "Work" and  *)
(* "work" differ only in case.                                             *)

TierNames == {"S", "A"}

FolderNames == {"Work", "work"}

FolderLists == UNION {[1..n -> FolderNames] : n \in 0..MaxFolders}

TierOrders ==
    {<<>>} \cup {<<t>> : t \in TierNames}
           \cup {o \in TierNames \X TierNames : o[1] # o[2]}

SmallTables ==
    UNION { { [k \in 1..Len(o) |-> [tier |-> o[k], folders |-> fl[k]]] :
                fl \in [1..Len(o) -> FolderLists] } : o \in TierOrders }

Tables == {DefaultStructure} \cup SmallTables

\* a file left at the destination by something else than this script
StaleEntries == << [path |-> "old.txt", content |-> "stale"] >>

InitialDisks ==
    { [exists |-> FALSE, entries |-> <<>>, finalized |-> FALSE],
      [exists |-> TRUE, entries |-> StaleEntries, finalized |-> TRUE] }

-----------------------------------------------------------------------------

Init ==
    /\ structure \in Tables
    /\ pc = "start"
    /\ ti = 1
    /\ fi = 1
    /\ zf = "none"
    /\ filelist = <<>>
    /\ calls = 0
    /\ disk \in InitialDisks
    /\ stdout = <<>>
    /\ exits = <<>>

\* zipfile.ZipFile(zip_filename, 'a'): the existing entries are kept
OpenAppend ==
    /\ pc = "start"
    /\ pc' = "loop"
    /\ zf' = "open"
    /\ filelist' = <<>>
    /\ disk' = [exists |-> TRUE, entries |-> disk.entries, finalized |-> FALSE]
    /\ ti' = 1
    /\ fi' = 1
    /\ UNCHANGED <<structure, calls, stdout, exits>>

\* zipfile.ZipFile(zip_filename, 'w') succeeds: the file is created or truncated
Open ==
    /\ pc = "start"
    /\ pc' = "loop"
    /\ zf' = "open"
    /\ filelist' = <<>>
    /\ disk' = [exists |-> TRUE, entries |-> <<>>, finalized |-> FALSE]
    /\ ti' = 1
    /\ fi' = 1
    /\ UNCHANGED <<structure, calls, stdout, exits>>

\* zipfile.ZipFile(zip_filename, 'w') raises: no handle, the file is untouched
OpenFail ==
    /\ pc = "start"
    /\ pc' = "error"
    /\ UNCHANGED <<structure, ti, fi, zf, filelist, calls, disk, stdout, exits>>

InLoopBody ==
    /\ pc = "loop"
    /\ ti <= Len(structure)
    /\ fi <= Len(structure[ti].folders)

\* the entry is skipped when its path is already in the archive
WriteEntryDedup ==
    /\ InLoopBody
    /\ LET path == PathOf(structure[ti].tier, structure[ti].folders[fi])
           entry == [path |-> path, content |-> Content]
           dup == \E i \in DOMAIN filelist : filelist[i].path = path
       IN  /\ filelist' = IF dup THEN filelist ELSE Append(filelist, entry)
           /\ disk' = IF dup THEN disk
                      ELSE [disk EXCEPT !.entries = Append(@, entry)]
    /\ calls' = calls + 1
    /\ fi' = fi + 1
    /\ UNCHANGED <<structure, pc, ti, zf, stdout, exits>>

\* the path is stored back into the table
WriteEntryRename ==
    /\ InLoopBody
    /\ LET path == PathOf(structure[ti].tier, structure[ti].folders[fi])
           entry == [path |-> path, content |-> Content]
       IN  /\ filelist' = Append(filelist, entry)
           /\ disk' = [disk EXCEPT !.entries = Append(@, entry)]
           /\ structure' = [structure EXCEPT ![ti].folders[fi] = path]
    /\ calls' = calls + 1
    /\ fi' = fi + 1
    /\ UNCHANGED <<pc, ti, zf, stdout, exits>>

\* the folders of a tier are visited last to first
WriteEntryReversed ==
    /\ InLoopBody
    /\ LET n == Len(structure[ti].folders)
           path == PathOf(structure[ti].tier, structure[ti].folders[n + 1 - fi])
           entry == [path |-> path, content |-> Content]
       IN  /\ filelist' = Append(filelist, entry)
           /\ disk' = [disk EXCEPT !.entries = Append(@, entry)]
    /\ calls' = calls + 1
    /\ fi' = fi + 1
    /\ UNCHANGED <<structure, pc, ti, zf, stdout, exits>>

\* one iteration of the inner loop; zf.writestr succeeds
WriteEntry ==
    /\ InLoopBody
    /\ LET path == PathOf(structure[ti].tier, structure[ti].folders[fi])
           entry == [path |-> path, content |-> Content]
       IN  /\ filelist' = Append(filelist, entry)
           /\ disk' = [disk EXCEPT !.entries = Append(@, entry)]
    /\ calls' = calls + 1
    /\ fi' = fi + 1
    /\ UNCHANGED <<structure, pc, ti, zf, stdout, exits>>

\* the failed write is caught and the loop goes on with the next folder
WriteFailSkip ==
    /\ InLoopBody
    /\ calls' = calls + 1
    /\ fi' = fi + 1
    /\ UNCHANGED <<structure, pc, ti, zf, filelist, disk, stdout, exits>>

\* one iteration of the inner loop; zf.writestr raises: the entry is not
\* recorded in the archive and the exception leaves the loops
WriteFail ==
    /\ InLoopBody
    /\ calls' = calls + 1
    /\ pc' = "raising"
    /\ UNCHANGED <<structure, ti, fi, zf, filelist, disk, stdout, exits>>

\* the inner iterator starts at the second folder
NextTierSkipFirst ==
    /\ pc = "loop"
    /\ ti <= Len(structure)
    /\ fi > Len(structure[ti].folders)
    /\ ti' = ti + 1
    /\ fi' = 2
    /\ UNCHANGED <<structure, pc, zf, filelist, calls, disk, stdout, exits>>

\* the inner loop is exhausted: the outer loop takes the next (tier, folders)
NextTier ==
    /\ pc = "loop"
    /\ ti <= Len(structure)
    /\ fi > Len(structure[ti].folders)
    /\ ti' = ti + 1
    /\ fi' = 1
    /\ UNCHANGED <<structure, pc, zf, filelist, calls, disk, stdout, exits>>

\* the outer loop is exhausted: control leaves the with-block normally
EndLoop ==
    /\ pc = "loop"
    /\ ti > Len(structure)
    /\ pc' = "exit"
    /\ UNCHANGED <<structure, ti, fi, zf, filelist, calls, disk, stdout, exits>>

\* ZipFile.__exit__ on the normal path: close() writes the central directory
ExitWith ==
    /\ pc = "exit"
    /\ zf' = "closed"
    /\ disk' = [disk EXCEPT !.finalized = TRUE]
    /\ pc' = "print"
    /\ UNCHANGED <<structure, ti, fi, filelist, calls, stdout, exits>>

\* ZipFile.__exit__ on the normal path: close() raises; the handle is released
ExitWithCloseFail ==
    /\ pc = "exit"
    /\ zf' = "closed"
    /\ pc' = "error"
    /\ UNCHANGED <<structure, ti, fi, filelist, calls, disk, stdout, exits>>

\* the exception is swallowed by the with-block and the script goes on
ExitRaiseSwallow ==
    /\ pc = "raising"
    /\ zf' = "closed"
    /\ \E ok \in BOOLEAN : disk' = [disk EXCEPT !.finalized = ok]
    /\ pc' = "print"
    /\ UNCHANGED <<structure, ti, fi, filelist, calls, stdout, exits>>

\* no with-block: the exception leaves the handle open
ExitRaiseNoClose ==
    /\ pc = "raising"
    /\ pc' = "error"
    /\ UNCHANGED <<structure, ti, fi, zf, filelist, calls, disk, stdout, exits>>

\* ZipFile.__exit__ with an exception in flight: close() (which may itself
\* fail to write the central directory), then the exception propagates
ExitRaise ==
    /\ pc = "raising"
    /\ zf' = "closed"
    /\ \E ok \in BOOLEAN : disk' = [disk EXCEPT !.finalized = ok]
    /\ pc' = "error"
    /\ UNCHANGED <<structure, ti, fi, filelist, calls, stdout, exits>>

\* print(f"Created {zip_filename}")
PrintCreated ==
    /\ pc = "print"
    /\ stdout' = Append(stdout, "Created " \o zip_filename)
    /\ pc' = "done"
    /\ UNCHANGED <<structure, ti, fi, zf, filelist, calls, disk, exits>>

\* the script is run again: a new process, the same table, the same file
Rerun ==
    /\ pc \in {"done", "error"}
    /\ Len(exits) + 1 < MaxRuns
    /\ exits' = Append(exits, IF pc = "done" THEN 0 ELSE 1)
    /\ pc' = "start"
    /\ ti' = 1
    /\ fi' = 1
    /\ zf' = "none"
    /\ filelist' = <<>>
    /\ calls' = 0
    /\ stdout' = <<>>
    /\ UNCHANGED <<structure, disk>>

Next ==
    \/ Open
    \/ OpenFail
    \/ WriteEntry
    \/ WriteFail
    \/ NextTier
    \/ EndLoop
    \/ ExitWith
    \/ ExitWithCloseFail
    \/ ExitRaise
    \/ PrintCreated
    \/ Rerun

Spec == Init /\ [][Next]_vars

-----------------------------------------------------------------------------
(* Definitions used to state the properties.  They spell the path format   *)
(* and the placeholder out, independently of PathOf and Content.           *)

RECURSIVE TotalFrom(_, _)
TotalFrom(s, k) ==
    IF k > Len(s) THEN 0 ELSE Len(s[k].folders) + TotalFrom(s, k + 1)

\* sum(len(folders) for folders in table.values())
Total(s) == TotalFrom(s, 1)

RECURSIVE ExpectedFrom(_, _)
ExpectedFrom(s, k) ==
    IF k > Len(s) THEN <<>>
    ELSE [j \in 1..Len(s[k].folders) |-> s[k].tier \o "/" \o s[k].folders[j] \o ".txt"]
         \o ExpectedFrom(s, k + 1)

\* the paths of the table's (tier, folder) pairs, in table order
ExpectedPaths(s) == ExpectedFrom(s, 1)

ExpectedEntries(s) ==
    [i \in 1..Len(ExpectedPaths(s)) |->
        [path |-> ExpectedPaths(s)[i], content |-> "- [ ] Placeholder task"]]

\* the positions of the table's (tier, folder) pairs
Pairs(s) == UNION {{<<k, j>> : j \in 1..Len(s[k].folders)} : k \in 1..Len(s)}

PairPath(s, p) == s[p[1]].tier \o "/" \o s[p[1]].folders[p[2]] \o ".txt"

\* no tier lists the same folder twice
PairsDistinct(s) ==
    \A k \in 1..Len(s) : \A i, j \in 1..Len(s[k].folders) :
        i # j => s[k].folders[i] # s[k].folders[j]

\* the archive entries that belong to the k-th tier of the table
TierEntries(s, k) ==
    {i \in 1..Len(disk.entries) :
        \E j \in 1..Len(s[k].folders) : disk.entries[i].path = PairPath(s, <<k, j>>)}

TierCounts(s) == [k \in 1..Len(s) |-> Cardinality(TierEntries(s, k))]

\* the entries of tier k all come before those of tier k + 1
TiersInOrder(s) ==
    \A k, l \in 1..Len(s) : k < l =>
        \A i \in TierEntries(s, k) : \A j \in TierEntries(s, l) : i < j

Terminal == pc \in {"done", "error"}

-----------------------------------------------------------------------------
(* C1 *)

\* C1, as stated: with the default table a successful run leaves exactly 51
\* entries, tiers S, A, B, C, D, F contributing 6, 7, 14, 14, 4 and 6.
C1_Original ==
    (structure = DefaultStructure /\ pc = "done") =>
        /\ Len(disk.entries) = 51
        /\ TierCounts(structure) = <<6, 7, 14, 14, 4, 6>>

\* C1, amended: with the default table a successful run leaves exactly 55
\* entries, tiers S, A, B, C, D, F in that order contributing 10, 7, 14, 14,
\* 4 and 6.
C1_DefaultArchiveSize ==
    (structure = DefaultStructure /\ pc = "done") =>
        /\ Len(disk.entries) = 55
        /\ TierCounts(structure) = <<10, 7, 14, 14, 4, 6>>
        /\ TiersInOrder(structure)

C1_Witness ==
    /\ structure = DefaultStructure
    /\ pc = "done"
    /\ Len(disk.entries) > 0

\* C2: after a successful run over a table without repeated folders, the
\* entry paths are in bijection with the (tier, folder) pairs: every path is
\* tier/folder.txt of a pair, every pair has an entry, no path occurs twice.
C2_PathBijection ==
    (pc = "done" /\ PairsDistinct(structure)) =>
        LET E == disk.entries
            P == Pairs(structure)
        IN  /\ \A i \in 1..Len(E) : \E p \in P : E[i].path = PairPath(structure, p)
            /\ \A p \in P : \E i \in 1..Len(E) : E[i].path = PairPath(structure, p)
            /\ \A i, j \in 1..Len(E) : i # j => E[i].path # E[j].path
            /\ Len(E) = Cardinality(P)

C2_Witness ==
    /\ pc = "done"
    /\ structure = DefaultStructure
    /\ \E i, j, k \in 1..Len(disk.entries) :
        /\ disk.entries[i].path = "F/None.txt"
        /\ disk.entries[j].path = "F/Ns.txt"
        /\ disk.entries[k].path = "F/NS Projects & Social.txt"

\* C3: at every point of a run every entry written through the handle has
\* exactly the placeholder as content (no trailing newline), and so has every
\* entry read back from the archive of a successful run.
C3_PlaceholderContent ==
    /\ \A i \in 1..Len(filelist) : filelist[i].content = "- [ ] Placeholder task"
    /\ pc = "done" =>
        \A i \in 1..Len(disk.entries) :
            disk.entries[i].content = "- [ ] Placeholder task"

C3_Witness ==
    /\ pc = "loop"
    /\ Len(filelist) > 0
    /\ Len(filelist) < Total(structure)

\* C4: the success message is printed at most once per run, and only when
\* the archive was opened, every entry written and the archive closed; a run
\* that ends in failure has printed nothing.
C4_SuccessMessage ==
    /\ Len(stdout) <= 1
    /\ stdout # <<>> =>
        /\ stdout = <<"Created restored_flowlist.zip">>
        /\ pc = "done"
        /\ zf = "closed"
        /\ disk.finalized
        /\ Len(filelist) = Total(structure)
        /\ calls = Total(structure)
    /\ pc = "error" => stdout = <<>>

C4_Witness ==
    /\ pc = "error"
    /\ zf = "none"
    /\ ~disk.exists
    /\ stdout = <<>>

\* C5: a handle that was opened is closed on every exit path: it is closed
\* when the print is reached, and no terminal state has it still open.
C5_HandleClosed ==
    /\ pc \in {"print", "done"} => zf = "closed"
    /\ (Terminal /\ zf # "none") => zf = "closed"

C5_Witness ==
    /\ pc = "error"
    /\ zf = "closed"
    /\ Len(filelist) > 0
    /\ calls = Len(filelist) + 1

\* C6: at every point of a run the entries written so far are a prefix of
\* the table flattened in tier order and, within a tier, in list order.
C6_TableOrder ==
    /\ Len(filelist) <= Len(ExpectedPaths(structure))
    /\ \A i \in 1..Len(filelist) : filelist[i].path = ExpectedPaths(structure)[i]

C6_Witness ==
    /\ structure = DefaultStructure
    /\ pc = "loop"
    /\ Len(filelist) = 12

\* C7: a run opens the destination in create-or-truncate mode: once it is
\* open the file holds exactly the entries of this run, never more than one
\* run produces, and every successful run, the second as the first, leaves
\* the same entries.
C7_Idempotent ==
    /\ zf # "none" =>
        /\ disk.entries = filelist
        /\ Len(disk.entries) <= Total(structure)
    /\ pc = "done" => disk.entries = ExpectedEntries(structure)

C7_Witness ==
    /\ exits = <<0>>
    /\ pc = "done"
    /\ Len(disk.entries) > 0

\* C8: a failure is propagated and not retried: at most one writestr call of
\* a run fails, a failed call leaves the run aborting or aborted, a failed
\* open is followed by no write, and from the failure on (within the run)
\* nothing more is written.
C8_NoRetry ==
    /\ [](/\ calls <= Len(filelist) + 1
          /\ calls > Len(filelist) => pc \in {"raising", "error"}
          /\ (pc = "error" /\ zf = "none") => (calls = 0 /\ filelist = <<>>))
    /\ [][(pc \in {"raising", "error"} /\ exits' = exits) =>
            /\ pc' = "error"
            /\ filelist' = filelist
            /\ disk'.entries = disk.entries
            /\ calls' = calls
            /\ stdout' = stdout]_vars

\* a partial archive left by a run that failed mid-write
C8_Witness ==
    /\ pc = "error"
    /\ zf = "closed"
    /\ Len(disk.entries) > 0
    /\ Len(disk.entries) < Total(structure)
    /\ calls = Len(disk.entries) + 1

\* C9: for any table a successful run has made exactly one writestr call per
\* (tier, folder) pair, in total sum(len(folders)), and the archive holds
\* that many entries, one per pair (a repeated pair gives a repeated entry).
C9_OneWritePerPair ==
    pc = "done" =>
        /\ calls = Total(structure)
        /\ Len(disk.entries) = Total(structure)
        /\ [i \in 1..Len(disk.entries) |-> disk.entries[i].path]
              = ExpectedPaths(structure)

C9_Witness ==
    /\ pc = "done"
    /\ structure # DefaultStructure
    /\ ~PairsDistinct(structure)
    /\ Len(structure) = 2

\* C10: no step of a run (open, write, close, print, an error path, a rerun)
\* changes the tier table.
C10_TableUnchanged == [][structure' = structure]_vars

C10_Witness ==
    /\ structure = DefaultStructure
    /\ pc = "error"
    /\ Len(filelist) > 0

====
